---- MODULE Spec2Model ----
(***************************************************************************)
(* Loki metric query splitting.                                            *)
(*                                                                         *)
(*   metricTimeSplit.ts  getRanges: splits [startTime, endTime] into       *)
(*                       step-aligned sub-ranges (the partitioner).        *)
(*   querySplitting.ts   runPartitionedQuery: runs one sub-query per       *)
(*                       sub-range, newest first, merges the partial       *)
(*                       responses and passes them on to its subscriber.   *)
(*                                                                         *)
(* datasource.runQuery, combineResponses and resultLimitReached are not     *)
(* part of these two files; they are modelled by their contracts in the    *)
(* design: a sub-query delivers one response or fails, inside subscribe()  *)
(* (an observable made by of()) or later from the event loop; combining    *)
(* returns the partial response when there is no accumulator yet and a new *)
(* accumulator otherwise; the limit is a row count.                        *)
(*                                                                         *)
(* Two specifications:                                                     *)
(*   SpecRanges  getRanges as a pure function: Init draws its arguments,   *)
(*               the one action calls it.                                  *)
(*   Spec        one subscription to the observable that                   *)
(*               runPartitionedQuery returns.                              *)
(***************************************************************************)
EXTENDS Integers, Sequences, FiniteSets, TLC

VARIABLES
    call,           \* SpecRanges: the arguments of the getRanges call
    ret,            \* SpecRanges: what that call produced
    request,        \* the DataQueryRequest given to runPartitionedQuery
    partition,      \* const partition: the ranges, oldest first
    mergedResponse, \* let mergedResponse: Null until the first merge
    subscriber,     \* the subscriber of the returned observable:
                    \* "none" (not subscribed yet), "open", "closed"
    dispatched,     \* the calls of datasource.runQuery, in call order
    inflight,       \* indexes into dispatched: sub-queries whose observable
                    \* has neither delivered its response nor failed
    syncCall,       \* index of the sub-query whose observable is delivering
                    \* inside its subscribe() call right now, 0 when none
    stack,          \* activations of the next: callback suspended inside
                    \* their call next(subscriber, requestN - 1), innermost
                    \* last; each holds the response it has yet to pass on
    emitted,        \* the responses the subscriber has received, in order
    mergedLog,      \* one entry per merged partial response, in order: the
                    \* requestN of its sub-query, the data of the partial
                    \* response and the merged data
    unhandled,      \* requestN of every sub-query whose observable failed:
                    \* its error had no handler
    terminal,       \* the terminal notification the subscriber has received
                    \* through subscriber.error() or subscriber.complete():
                    \* "none", "error" or "complete"
    peer            \* SpecTwo: the state of a second call of
                    \* runPartitionedQuery, a record of its request,
                    \* partition, mergedResponse, subscriber, dispatched,
                    \* inflight, emitted and mergedLog

rangeVars == <<call, ret>>

schedVars ==
    <<request, partition, mergedResponse, subscriber, dispatched, inflight,
      syncCall, stack, emitted, mergedLog, unhandled, terminal>>

vars == <<rangeVars, schedVars, peer>>

(***************************************************************************)
(* Bounds of the model.                                                    *)
(***************************************************************************)
\* startTime and endTime of a getRanges call lie in -MaxTime .. MaxTime
MaxTime == 7
\* step of a getRanges call lies in -MaxNegStep .. MaxStep
MaxStep == 4
MaxNegStep == 2
\* idealRangeSize of a getRanges call lies in -1 .. MaxIdealRangeSize
MaxIdealRangeSize == 9
\* request.range.from is a multiple of 15 s in 0 .. MaxFromTick * 15 s
MaxFromTick == 1
\* request.range.to is request.range.from plus a multiple of 30 s, at most
\* MaxSpanTick * 30 s
MaxSpanTick == 6
\* the configured row limit of a request lies in 0 .. MaxLines (0: no limit)
MaxLines == 2
\* SpecAnyRange: a reversed request.range ends a multiple of 30 s, at most
\* MaxBackTick * 30 s, before it starts
MaxBackTick == 2
\* SpecTwo: both requests start at 0, end at a multiple of 30 s, at most
\* MaxTwoSpanTick * 30 s, and have a row limit in 0 .. MaxTwoLines
MaxTwoSpanTick == 1
MaxTwoLines == 1

\* the requests of SpecLive start at 0, span at most MaxLiveSpanTick * 30 s,
\* and have a row limit in 0 .. MaxLiveLines
MaxLiveSpanTick == 4
MaxLiveLines == 1

(***************************************************************************)
(* JavaScript arithmetic.                                                  *)
(***************************************************************************)
\* a % b of JavaScript for integers and b # 0: the remainder of the division
\* truncated toward zero, so it has the sign of the dividend and the size of
\* |a| modulo |b|. (a % 0 is NaN: see getAllPoints.)
JsRem(a, b) ==
    LET m == IF b < 0 THEN -b ELSE b
    IN  IF a >= 0 THEN a % m ELSE -((-a) % m)

\* A plausible slip: the quotient rounded up, not truncated.
TruncDivRoundsUp(a, b) ==
    IF b > 0 THEN (a + b - 1) \div b ELSE -(a \div (-b))

\* Math.trunc(a / b) for integers a >= 0 and b # 0. (a / 0 is Infinity for
\* a > 0; getRanges uses it only as the chunk size of an empty list.)
TruncDiv(a, b) == IF b > 0 THEN a \div b ELSE -(a \div (-b))

\* A plausible slip: Math.max(..., 1) left out.
MathMaxLeftOut(a, b) == a

MathMax(a, b) == IF a >= b THEN a ELSE b

\* Array.prototype.reverse
reverse(s) == [i \in 1..Len(s) |-> s[Len(s) + 1 - i]]

\* A plausible slip: slices taken so that the short one, holding what is
\* left over, comes first.
RECURSIVE chunkShortFirst(_, _)
chunkShortFirst(array, size) ==
    IF Len(array) = 0 THEN <<>>
    ELSE IF size < 1 THEN <<>>
    ELSE IF Len(array) <= size THEN <<array>>
    ELSE LET short == IF Len(array) % size = 0 THEN size ELSE Len(array) % size
         IN  <<SubSeq(array, 1, short)>>
                 \o chunkShortFirst(SubSeq(array, short + 1, Len(array)), size)

\* lodash chunk(array, size): slices of length size taken from the front; the
\* last slice holds what is left. An empty array or a size below 1 gives [].
RECURSIVE chunk(_, _)
chunk(array, size) ==
    IF Len(array) = 0 THEN <<>>
    ELSE IF size < 1 THEN <<>>
    ELSE IF Len(array) <= size THEN <<array>>
    ELSE <<SubSeq(array, 1, size)>> \o chunk(SubSeq(array, size + 1, Len(array)), size)

(***************************************************************************)
(* metricTimeSplit.ts                                                      *)
(***************************************************************************)
\* A plausible slip: startTime left as it is, not moved to a multiple of step.
expandTimeRangeStartUnaligned(startTime, endTime, step) ==
    LET newStartTime == startTime
        endStepMod == JsRem(endTime, step)
        newEndTime == IF endStepMod # 0 THEN endTime + (step - endStepMod) ELSE endTime
    IN  <<newStartTime, newEndTime>>

\* A plausible slip: endTime left as it is, not raised to a multiple of step.
expandTimeRangeEndNotRaised(startTime, endTime, step) ==
    LET newStartTime == startTime - JsRem(startTime, step)
        newEndTime == endTime
    IN  <<newStartTime, newEndTime>>

expandTimeRange(startTime, endTime, step) ==
    LET newStartTime == startTime - JsRem(startTime, step)
        endStepMod == JsRem(endTime, step)
        newEndTime == IF endStepMod # 0 THEN endTime + (step - endStepMod) ELSE endTime
    IN  <<newStartTime, newEndTime>>

\* the for loop of getAllPoints
RECURSIVE pointsLoop(_, _, _, _)
pointsLoop(current, alignedEnd, step, result) ==
    IF current <= alignedEnd
    THEN pointsLoop(current + step, alignedEnd, step, Append(result, current))
    ELSE result

\* Whether the for loop of getAllPoints comes to an end. With step > 0 the
\* counter passes alignedEnd; with step = 0 both bounds are NaN and the
\* condition NaN <= NaN is false at once; with step < 0 the counter only
\* decreases, so a loop that is entered pushes points until the engine has no
\* memory left for the array.
getAllPointsEnds(startTime, endTime, step) ==
    \/ step >= 0
    \/ LET aligned == expandTimeRange(startTime, endTime, step)
       IN  aligned[1] > aligned[2]

\* A plausible slip: the loop stops before alignedEnd (< instead of <=).
getAllPointsExclusiveEnd(startTime, endTime, step) ==
    IF step = 0 THEN <<>>
    ELSE LET aligned == expandTimeRange(startTime, endTime, step)
         IN  pointsLoop(aligned[1], aligned[2] - 1, step, <<>>)

\* getAllPoints where its loop ends. With step = 0 expandTimeRange yields
\* NaN for both bounds (x % 0), the loop body never runs and the list is
\* empty.
getAllPoints(startTime, endTime, step) ==
    IF step = 0 THEN <<>>
    ELSE LET aligned == expandTimeRange(startTime, endTime, step)
         IN  pointsLoop(aligned[1], aligned[2], step, <<>>)

\* A plausible slip: start and end taken as if the chunk were not reversed.
rangeOfChunkNotReversed(range) == <<range[1], range[Len(range)]>>

\* the forEach callback of getRanges: a chunk of the reversed point list
\* becomes [its last element, its first element]
rangeOfChunk(range) == <<range[Len(range)], range[1]>>

\* A plausible slip: the first allPoints.reverse() left out, so that the
\* undersized chunk is the newest one.
getRangesNoReverse(startTime, endTime, step, idealRangeSize) ==
    IF idealRangeSize < 1
    THEN [threw |-> TRUE, returned |-> FALSE, ranges |-> <<>>]
    ELSE IF ~getAllPointsEnds(startTime, endTime, step)
    THEN [threw |-> FALSE, returned |-> FALSE, ranges |-> <<>>]
    ELSE LET pointsInChunk == MathMax(TruncDiv(idealRangeSize, step), 1)
             allPoints == getAllPoints(startTime, endTime, step)
             chunks == chunk(allPoints, pointsInChunk)
         IN  [threw |-> FALSE, returned |-> TRUE,
              ranges |-> [i \in 1..Len(chunks) |->
                            <<chunks[i][1], chunks[i][Len(chunks[i])]>>]]

\* A plausible slip: the final ranges.reverse() left out.
getRangesNewestFirst(startTime, endTime, step, idealRangeSize) ==
    IF idealRangeSize < 1
    THEN [threw |-> TRUE, returned |-> FALSE, ranges |-> <<>>]
    ELSE IF ~getAllPointsEnds(startTime, endTime, step)
    THEN [threw |-> FALSE, returned |-> FALSE, ranges |-> <<>>]
    ELSE LET pointsInChunk == MathMax(TruncDiv(idealRangeSize, step), 1)
             allPoints == reverse(getAllPoints(startTime, endTime, step))
             chunks == chunk(allPoints, pointsInChunk)
         IN  [threw |-> FALSE, returned |-> TRUE,
              ranges |-> [i \in 1..Len(chunks) |-> rangeOfChunk(chunks[i])]]

\* A plausible slip: the guard of idealRangeSize off by one (< 0).
getRangesAcceptsZero(startTime, endTime, step, idealRangeSize) ==
    IF idealRangeSize < 0
    THEN [threw |-> TRUE, returned |-> FALSE, ranges |-> <<>>]
    ELSE IF ~getAllPointsEnds(startTime, endTime, step)
    THEN [threw |-> FALSE, returned |-> FALSE, ranges |-> <<>>]
    ELSE LET pointsInChunk == MathMax(TruncDiv(idealRangeSize, step), 1)
             allPoints == reverse(getAllPoints(startTime, endTime, step))
             chunks == chunk(allPoints, pointsInChunk)
             ranges == [i \in 1..Len(chunks) |-> rangeOfChunk(chunks[i])]
         IN  [threw |-> FALSE, returned |-> TRUE, ranges |-> reverse(ranges)]

\* getRanges: it throws, or it returns the list of ranges, each
\* <<start, end>>, or (neither threw nor returned) the loop of getAllPoints
\* does not end and the call runs until the engine is out of memory.
getRanges(startTime, endTime, step, idealRangeSize) ==
    IF idealRangeSize < 1
    THEN [threw |-> TRUE, returned |-> FALSE, ranges |-> <<>>]
    ELSE IF ~getAllPointsEnds(startTime, endTime, step)
    THEN [threw |-> FALSE, returned |-> FALSE, ranges |-> <<>>]
    ELSE LET pointsInChunk == MathMax(TruncDiv(idealRangeSize, step), 1)
             allPoints == reverse(getAllPoints(startTime, endTime, step))
             chunks == chunk(allPoints, pointsInChunk)
             ranges == [i \in 1..Len(chunks) |-> rangeOfChunk(chunks[i])]
         IN  [threw |-> FALSE, returned |-> TRUE, ranges |-> reverse(ranges)]

Null == [absent |-> TRUE]

NoRequest == [absent |-> TRUE]

NoPeer == [absent |-> TRUE]

(***************************************************************************)
(* SpecRanges: getRanges called once with arguments drawn by Init.         *)
(***************************************************************************)
\* The call of metricTimeSplit.test.ts: start 14:10:03, end 14:11:03,
\* step 10 s, idealRangeSize 35 s. The timestamps are written as milliseconds
\* since 2022-02-06T14:00:00, a multiple of the step, because TLC's integers
\* have 32 bits; for timestamps >= 0 getRanges commutes with a shift by a
\* multiple of step.
TestCall ==
    [startTime |-> 603000, endTime |-> 663000, step |-> 10000, idealRangeSize |-> 35000]

TestExpected ==
    << <<600000, 610000>>, <<620000, 640000>>, <<650000, 670000>> >>

Calls ==
    [startTime : -MaxTime..MaxTime, endTime : -MaxTime..MaxTime,
     step : -MaxNegStep..MaxStep, idealRangeSize : -1..MaxIdealRangeSize]
    \cup {TestCall}

NotCalled == [status |-> "none", ranges |-> <<>>]

InitRanges ==
    /\ call \in Calls
    /\ ret = NotCalled
    /\ request = NoRequest
    /\ partition = <<>>
    /\ mergedResponse = Null
    /\ subscriber = "none"
    /\ dispatched = <<>>
    /\ inflight = {}
    /\ syncCall = 0
    /\ stack = <<>>
    /\ emitted = <<>>
    /\ mergedLog = <<>>
    /\ unhandled = <<>>
    /\ terminal = "none"
    /\ peer = NoPeer

CallGetRanges ==
    /\ ret.status = "none"
    /\ LET r == getRanges(call.startTime, call.endTime, call.step, call.idealRangeSize)
       IN  ret' = [status |-> IF r.threw THEN "threw"
                              ELSE IF r.returned THEN "returned"
                              ELSE "exhausted",
                   ranges |-> r.ranges]
    /\ UNCHANGED <<call, schedVars, peer>>

NextRanges == CallGetRanges

SpecRanges == InitRanges /\ [][NextRanges]_vars

(***************************************************************************)
(* querySplitting.ts: runPartitionedQuery                                  *)
(***************************************************************************)
\* the hardcoded ideal range size: 60 * 1000
IdealRangeSize == 60 * 1000

\* the requests of the model: range.from <= range.to (a TimeRange),
\* intervalMs 30 s or 60 s, one requestId, a row limit
Requests ==
    {[from |-> f * 15 * 1000, to |-> f * 15 * 1000 + s * 30 * 1000,
      intervalMs |-> i, requestId |-> "A", maxLines |-> l] :
        f \in 0..MaxFromTick, s \in 0..MaxSpanTick,
        i \in {30 * 1000, 60 * 1000}, l \in 0..MaxLines}

\* const partition = getRanges(...).map(([start, end]) => ({from, to, raw}))
partitionOf(req) ==
    LET ranges == getRanges(req.from, req.to, req.intervalMs, IdealRangeSize).ranges
    IN  [i \in 1..Len(ranges) |-> [from |-> ranges[i][1], to |-> ranges[i][2]]]

totalRequests == Len(partition)

\* the argument of datasource.runQuery in next(subscriber, requestN):
\* { ...request, range, requestId }
Undefined == [undefined |-> TRUE]

\* partition[requestN - 1] (the model counts list positions from 1)
partitionAt(requestN) ==
    IF requestN \in 1..Len(partition) THEN partition[requestN] ELSE Undefined

\* A plausible slip: the identifier carries the list index of the partition,
\* which counts from 0.
subRequestIdFromIndex(requestN) ==
    [requestN |-> requestN,
     query |-> [intervalMs |-> request.intervalMs,
                maxLines |-> request.maxLines,
                range |-> partitionAt(requestN),
                requestId |-> request.requestId \o "_" \o ToString(requestN - 1)]]

\* A plausible slip: the identifier counts the sub-queries in the order of
\* their execution, from 1.
subRequestIdInExecutionOrder(requestN) ==
    [requestN |-> requestN,
     query |-> [intervalMs |-> request.intervalMs,
                maxLines |-> request.maxLines,
                range |-> partitionAt(requestN),
                requestId |-> request.requestId \o "_" \o ToString(Len(dispatched) + 1)]]

subRequest(requestN) ==
    [requestN |-> requestN,
     query |-> [intervalMs |-> request.intervalMs,
                maxLines |-> request.maxLines,
                range |-> partitionAt(requestN),
                requestId |-> request.requestId \o "_" \o ToString(requestN)]]

\* the elements of a set of numbers in ascending order
RECURSIVE SortedSeq(_)
SortedSeq(S) ==
    IF S = {} THEN <<>>
    ELSE LET m == CHOOSE x \in S : \A y \in S : x <= y
         IN  <<m>> \o SortedSeq(S \ {m})

SeqRange(q) == {q[i] : i \in 1..Len(q)}

\* datasource.runQuery: what the observable of one sub-query may deliver. A
\* response holds the samples of one series, as their timestamps in ascending
\* order: any of the grid points of the sub-query's range. A sub-query without
\* a range has no samples to deliver: its response is empty, or it fails.
runQueryResponses(query) ==
    IF query.range = Undefined THEN {[data |-> <<>>, state |-> "NotSet"]} ELSE
    LET count == (query.range.to - query.range.from) \div query.intervalMs
        points == {query.range.from + k * query.intervalMs : k \in 0..count}
    IN  {[data |-> SortedSeq(S), state |-> "NotSet"] : S \in SUBSET points}

\* combineResponses of queryUtils.ts
combineResponses(currentResult, newResult) ==
    IF currentResult = Null
    THEN newResult
    ELSE [data |-> SortedSeq(SeqRange(currentResult.data) \cup SeqRange(newResult.data)),
          state |-> currentResult.state]

\* resultLimitReached of queryUtils.ts
resultLimitReached(req, response) ==
    /\ req.maxLines > 0
    /\ Len(response.data) >= req.maxLines

\* A plausible slip: the condition read as "this was not the first executed
\* partition" (more than one partial response merged so far).
shouldContinueNotFirst(requestN, response) ==
    /\ Len(mergedLog) + 1 > 1
    /\ resultLimitReached(request, response) = FALSE

\* A plausible slip: the bound of the countdown off by one (>= 1).
shouldContinueOffByOne(requestN, response) ==
    /\ requestN >= 1
    /\ resultLimitReached(request, response) = FALSE

\* A plausible slip: the limit is not consulted.
shouldContinueIgnoresLimit(requestN, response) ==
    requestN > 1

\* the condition of the next: callback
\*   requestN > 1 && resultLimitReached(request, response) === false
shouldContinue(requestN, response) ==
    /\ requestN > 1
    /\ resultLimitReached(request, response) = FALSE

\* the requestN of the recursive call next(subscriber, requestN - 1)
nextRequestN(requestN) == requestN - 1

\* A plausible slip: the response is handed to the caller's handler without
\* regard to the subscription.
afterNextIgnoresUnsubscribe(response) ==
    Append(emitted, response)

\* A plausible slip: subscriber.next(response) placed in the else branch, so
\* that only the Done response is passed on.
afterNextOnlyDone(response) ==
    IF subscriber = "open" /\ response.state = "Done"
    THEN Append(emitted, response)
    ELSE emitted

\* A plausible slip: subscriber.next(response) placed in the if branch, so
\* that the Done response is never passed on.
afterNextOnlyStreaming(response) ==
    IF subscriber = "open" /\ response.state = "Streaming"
    THEN Append(emitted, response)
    ELSE emitted

\* subscriber.next(response): a closed subscriber drops it
afterNext(response) ==
    IF subscriber = "open" THEN Append(emitted, response) ELSE emitted

\* what the subscriber's own next handler does with the subscription: it may
\* unsubscribe
afterHandler(unsub) ==
    IF subscriber = "open" /\ unsub THEN "closed" ELSE subscriber

Init ==
    /\ call = [absent |-> TRUE]
    /\ ret = NotCalled
    /\ request \in Requests
    /\ partition = partitionOf(request)
    /\ mergedResponse = Null
    /\ subscriber = "none"
    /\ dispatched = <<>>
    /\ inflight = {}
    /\ syncCall = 0
    /\ stack = <<>>
    /\ emitted = <<>>
    /\ mergedLog = <<>>
    /\ unhandled = <<>>
    /\ terminal = "none"
    /\ peer = NoPeer

\* A plausible slip: the first sub-query is the oldest partition, not the
\* newest.
SubscribeOldestFirst(sync) ==
    /\ subscriber = "none"
    /\ subscriber' = "open"
    /\ dispatched' = Append(dispatched, subRequest(1))
    /\ inflight' = inflight \cup {Len(dispatched) + 1}
    /\ syncCall' = IF sync THEN Len(dispatched) + 1 ELSE 0
    /\ UNCHANGED <<rangeVars, peer, request, partition, mergedResponse, stack, emitted,
                   mergedLog, unhandled, terminal>>

\* A plausible slip: the subscribe function starts the sub-queries of all
\* partitions at once, newest first.
SubscribeAllAtOnce(sync) ==
    /\ subscriber = "none"
    /\ subscriber' = "open"
    /\ dispatched' = dispatched \o
           [k \in 1..totalRequests |-> subRequest(totalRequests + 1 - k)]
    /\ inflight' = inflight \cup
           {Len(dispatched) + k : k \in 1..totalRequests}
    /\ syncCall' = IF sync /\ totalRequests = 1 THEN Len(dispatched) + 1 ELSE 0
    /\ UNCHANGED <<rangeVars, peer, request, partition, mergedResponse, stack, emitted,
                   mergedLog, unhandled, terminal>>

\* new Observable((subscriber) => { next(subscriber, totalRequests) }): the
\* caller subscribes and the first sub-query is dispatched. sync: whether its
\* observable delivers inside the subscribe() call.
Subscribe(sync) ==
    /\ subscriber = "none"
    /\ subscriber' = "open"
    /\ dispatched' = Append(dispatched, subRequest(totalRequests))
    /\ inflight' = inflight \cup {Len(dispatched) + 1}
    /\ syncCall' = IF sync THEN Len(dispatched) + 1 ELSE 0
    /\ UNCHANGED <<rangeVars, peer, request, partition, mergedResponse, stack, emitted,
                   mergedLog, unhandled, terminal>>

\* A sub-query's observable may act when it is the one delivering inside its
\* subscribe() call, or, from the event loop, when no callback is running.
MayAct(idx) ==
    /\ idx \in inflight
    /\ IF syncCall # 0 THEN idx = syncCall ELSE stack = <<>>

\* A plausible slip: the map callback merges into nothing, the accumulator
\* kept so far is not passed to combineResponses.
QueryResultForgetsAccumulator(idx, partialResponse, sync, unsub) ==
    /\ MayAct(idx)
    /\ partialResponse \in runQueryResponses(dispatched[idx].query)
    /\ LET requestN == dispatched[idx].requestN
           merged == combineResponses(Null, partialResponse)
           continue == shouldContinue(requestN, merged)
           response == [merged EXCEPT !.state = IF continue THEN "Streaming" ELSE "Done"]
       IN  /\ mergedResponse' = response
           /\ mergedLog' = Append(mergedLog, [requestN |-> requestN,
                                            partial |-> partialResponse.data,
                                            data |-> merged.data])
           /\ IF continue
              THEN /\ dispatched' = Append(dispatched, subRequest(nextRequestN(requestN)))
                   /\ inflight' = (inflight \ {idx}) \cup {Len(dispatched) + 1}
              ELSE /\ sync = FALSE
                   /\ dispatched' = dispatched
                   /\ inflight' = inflight \ {idx}
           /\ IF continue /\ sync
              THEN /\ unsub = FALSE
                   /\ syncCall' = Len(dispatched) + 1
                   /\ stack' = Append(stack, response)
                   /\ UNCHANGED <<emitted, subscriber>>
              ELSE /\ syncCall' = 0
                   /\ stack' = stack
                   /\ emitted' = afterNext(response)
                   /\ subscriber' = afterHandler(unsub)
    /\ UNCHANGED <<rangeVars, peer, request, partition, unhandled, terminal>>

\* The observable of sub-query idx delivers partialResponse: the map callback
\* merges it, then the next: callback decides, dispatches the next older
\* sub-query if it continues, and passes the response to the subscriber.
\* sync: whether the observable of the sub-query dispatched here delivers
\* inside its subscribe() call; the callback is then suspended in that call.
\* unsub: whether the subscriber unsubscribes when it receives the response.
QueryResult(idx, partialResponse, sync, unsub) ==
    /\ MayAct(idx)
    /\ partialResponse \in runQueryResponses(dispatched[idx].query)
    /\ LET requestN == dispatched[idx].requestN
           merged == combineResponses(mergedResponse, partialResponse)
           continue == shouldContinue(requestN, merged)
           response == [merged EXCEPT !.state = IF continue THEN "Streaming" ELSE "Done"]
       IN  /\ mergedResponse' = response
           /\ mergedLog' = Append(mergedLog, [requestN |-> requestN,
                                            partial |-> partialResponse.data,
                                            data |-> merged.data])
           /\ IF continue
              THEN /\ dispatched' = Append(dispatched, subRequest(nextRequestN(requestN)))
                   /\ inflight' = (inflight \ {idx}) \cup {Len(dispatched) + 1}
              ELSE /\ sync = FALSE
                   /\ dispatched' = dispatched
                   /\ inflight' = inflight \ {idx}
           /\ IF continue /\ sync
              THEN /\ unsub = FALSE
                   /\ syncCall' = Len(dispatched) + 1
                   /\ stack' = Append(stack, response)
                   /\ UNCHANGED <<emitted, subscriber>>
              ELSE /\ syncCall' = 0
                   /\ stack' = stack
                   /\ emitted' = afterNext(response)
                   /\ subscriber' = afterHandler(unsub)
    /\ UNCHANGED <<rangeVars, peer, request, partition, unhandled, terminal>>

\* A plausible slip: an error handler that skips the failed partition and
\* goes on with the next older one.
QueryErrorSkipsPartition(idx) ==
    /\ MayAct(idx)
    /\ syncCall' = 0
    /\ unhandled' = Append(unhandled, dispatched[idx].requestN)
    /\ IF dispatched[idx].requestN > 1
       THEN /\ dispatched' =
                   Append(dispatched, subRequest(nextRequestN(dispatched[idx].requestN)))
            /\ inflight' = (inflight \ {idx}) \cup {Len(dispatched) + 1}
       ELSE /\ dispatched' = dispatched
            /\ inflight' = inflight \ {idx}
    /\ UNCHANGED <<rangeVars, peer, request, partition, mergedResponse, subscriber,
                   stack, emitted, mergedLog, terminal>>

\* A plausible slip: an error handler that runs the failed sub-query again,
\* once.
QueryErrorRetries(idx) ==
    /\ MayAct(idx)
    /\ syncCall' = 0
    /\ unhandled' = Append(unhandled, dispatched[idx].requestN)
    /\ IF unhandled = <<>>
       THEN /\ dispatched' = Append(dispatched, subRequest(dispatched[idx].requestN))
            /\ inflight' = (inflight \ {idx}) \cup {Len(dispatched) + 1}
       ELSE /\ dispatched' = dispatched
            /\ inflight' = inflight \ {idx}
    /\ UNCHANGED <<rangeVars, peer, request, partition, mergedResponse, subscriber,
                   stack, emitted, mergedLog, terminal>>

\* A plausible slip: an error handler that passes the error on with
\* subscriber.error().
QueryErrorNotifies(idx) ==
    /\ MayAct(idx)
    /\ inflight' = inflight \ {idx}
    /\ syncCall' = 0
    /\ unhandled' = Append(unhandled, dispatched[idx].requestN)
    /\ terminal' = IF subscriber = "open" THEN "error" ELSE terminal
    /\ UNCHANGED <<rangeVars, peer, request, partition, mergedResponse, subscriber,
                   dispatched, stack, emitted, mergedLog>>

\* The observable of sub-query idx fails. subscribe() was given a next:
\* callback only, so the error has no handler: nothing is merged, dispatched
\* or passed to the subscriber, whose error() and complete() are never called.
QueryError(idx) ==
    /\ MayAct(idx)
    /\ inflight' = inflight \ {idx}
    /\ syncCall' = 0
    /\ unhandled' = Append(unhandled, dispatched[idx].requestN)
    /\ UNCHANGED <<rangeVars, peer, request, partition, mergedResponse, subscriber,
                   dispatched, stack, emitted, mergedLog, terminal>>

\* The call next(subscriber, requestN - 1) returns into the innermost suspended
\* next: callback, which goes on to subscriber.next(response).
Resume(unsub) ==
    /\ syncCall = 0
    /\ stack # <<>>
    /\ stack' = SubSeq(stack, 1, Len(stack) - 1)
    /\ emitted' = afterNext(stack[Len(stack)])
    /\ subscriber' = afterHandler(unsub)
    /\ UNCHANGED <<rangeVars, peer, request, partition, mergedResponse, dispatched,
                   inflight, syncCall, mergedLog, unhandled, terminal>>

\* The caller unsubscribes from the event loop. The subscribe function of the
\* observable returns no teardown, so only the subscriber is closed.
Unsubscribe ==
    /\ subscriber = "open"
    /\ syncCall = 0
    /\ stack = <<>>
    /\ subscriber' = "closed"
    /\ UNCHANGED <<rangeVars, peer, request, partition, mergedResponse, dispatched,
                   inflight, syncCall, stack, emitted, mergedLog, unhandled, terminal>>

Next ==
    \/ \E sync \in BOOLEAN : Subscribe(sync)
    \/ \E idx \in inflight, sync \in BOOLEAN, unsub \in BOOLEAN :
          \E partialResponse \in runQueryResponses(dispatched[idx].query) :
              QueryResult(idx, partialResponse, sync, unsub)
    \/ \E idx \in inflight : QueryError(idx)
    \/ \E unsub \in BOOLEAN : Resume(unsub)
    \/ Unsubscribe

Spec == Init /\ [][Next]_vars

(***************************************************************************)
(* SpecLive: Spec with the fairness the run-time gives. A sub-query in     *)
(* flight that can deliver does deliver or fail in the end (an observable  *)
(* of runQuery does not stay silent for ever), and a call                  *)
(* next(subscriber, requestN - 1) that has ended returns to its caller.    *)
(* Nothing obliges the caller to subscribe or to unsubscribe.              *)
(***************************************************************************)
LiveRequests ==
    {r \in Requests : /\ r.from = 0
                      /\ r.to <= MaxLiveSpanTick * 30 * 1000
                      /\ r.maxLines <= MaxLiveLines}

InitLive ==
    /\ call = [absent |-> TRUE]
    /\ ret = NotCalled
    /\ request \in LiveRequests
    /\ partition = partitionOf(request)
    /\ mergedResponse = Null
    /\ subscriber = "none"
    /\ dispatched = <<>>
    /\ inflight = {}
    /\ syncCall = 0
    /\ stack = <<>>
    /\ emitted = <<>>
    /\ mergedLog = <<>>
    /\ unhandled = <<>>
    /\ terminal = "none"
    /\ peer = NoPeer

Deliver ==
    \E idx \in inflight, sync \in BOOLEAN, unsub \in BOOLEAN :
        \E partialResponse \in runQueryResponses(dispatched[idx].query) :
            QueryResult(idx, partialResponse, sync, unsub)

Return ==
    \E unsub \in BOOLEAN : Resume(unsub)

SpecLive ==
    /\ InitLive
    /\ [][Next]_vars
    /\ WF_vars(Deliver)
    /\ WF_vars(Return)

(***************************************************************************)
(* SpecAnyRange: as Spec, and the request may also carry a range whose end *)
(* lies before its start; runPartitionedQuery passes the range on to       *)
(* getRanges as it is.                                                     *)
(***************************************************************************)
ReversedRequests ==
    {[from |-> f * 15 * 1000, to |-> f * 15 * 1000 - s * 30 * 1000,
      intervalMs |-> i, requestId |-> "A", maxLines |-> l] :
        f \in 0..MaxFromTick, s \in 1..MaxBackTick,
        i \in {30 * 1000, 60 * 1000}, l \in 0..MaxLines}

InitAnyRange ==
    /\ call = [absent |-> TRUE]
    /\ ret = NotCalled
    /\ request \in Requests \cup ReversedRequests
    /\ partition = partitionOf(request)
    /\ mergedResponse = Null
    /\ subscriber = "none"
    /\ dispatched = <<>>
    /\ inflight = {}
    /\ syncCall = 0
    /\ stack = <<>>
    /\ emitted = <<>>
    /\ mergedLog = <<>>
    /\ unhandled = <<>>
    /\ terminal = "none"
    /\ peer = NoPeer

SpecAnyRange == InitAnyRange /\ [][Next]_vars

(***************************************************************************)
(* SpecTwo: runPartitionedQuery called twice. The first call is the one of *)
(* Spec; the second call (requestId "B") keeps its own partition,          *)
(* mergedResponse and totalRequests, which are locals of the call (lines   *)
(* 14, 29, 30), in the record peer. Its sub-queries deliver from the event *)
(* loop, while no callback of the first call is running.                   *)
(***************************************************************************)
TwoRequests ==
    {r \in Requests : /\ r.from = 0
                      /\ r.to <= MaxTwoSpanTick * 30 * 1000
                      /\ r.intervalMs = 60 * 1000
                      /\ r.maxLines <= MaxTwoLines}

InitTwo ==
    /\ call = [absent |-> TRUE]
    /\ ret = NotCalled
    /\ request \in TwoRequests
    /\ partition = partitionOf(request)
    /\ mergedResponse = Null
    /\ subscriber = "none"
    /\ dispatched = <<>>
    /\ inflight = {}
    /\ syncCall = 0
    /\ stack = <<>>
    /\ emitted = <<>>
    /\ mergedLog = <<>>
    /\ unhandled = <<>>
    /\ terminal = "none"
    /\ \E r \in TwoRequests :
           peer = [request |-> [r EXCEPT !.requestId = "B"],
                   partition |-> partitionOf(r),
                   mergedResponse |-> Null,
                   subscriber |-> "none",
                   dispatched |-> <<>>,
                   inflight |-> {},
                   emitted |-> <<>>,
                   mergedLog |-> <<>>]

\* { ...request, range, requestId } in the second call
peerSubRequest(requestN) ==
    [requestN |-> requestN,
     query |-> [intervalMs |-> peer.request.intervalMs,
                maxLines |-> peer.request.maxLines,
                range |-> IF requestN \in 1..Len(peer.partition)
                          THEN peer.partition[requestN] ELSE Undefined,
                requestId |-> peer.request.requestId \o "_" \o ToString(requestN)]]

\* no callback of the first call is running
EventLoopFree == syncCall = 0 /\ stack = <<>>

\* the caller of the second call subscribes: next(subscriber, totalRequests)
PeerSubscribe ==
    /\ EventLoopFree
    /\ peer.subscriber = "none"
    /\ peer' = [peer EXCEPT !.subscriber = "open",
                            !.dispatched = <<peerSubRequest(Len(peer.partition))>>,
                            !.inflight = {1}]
    /\ UNCHANGED <<rangeVars, schedVars>>

\* A plausible slip: mergedResponse declared in the module, not in the call,
\* so that both calls merge into the same accumulator.
PeerQueryResultSharedAccumulator(idx, partialResponse) ==
    /\ EventLoopFree
    /\ idx \in peer.inflight
    /\ partialResponse \in runQueryResponses(peer.dispatched[idx].query)
    /\ LET requestN == peer.dispatched[idx].requestN
           merged == combineResponses(mergedResponse, partialResponse)
           continue == /\ requestN > 1
                       /\ resultLimitReached(peer.request, merged) = FALSE
           response == [merged EXCEPT !.state = IF continue THEN "Streaming" ELSE "Done"]
       IN  /\ mergedResponse' = response
           /\ peer' = [peer EXCEPT
                  !.mergedResponse = response,
                  !.mergedLog = Append(@, [requestN |-> requestN,
                                           partial |-> partialResponse.data,
                                           data |-> merged.data]),
                  !.dispatched = IF continue
                                 THEN Append(@, peerSubRequest(requestN - 1))
                                 ELSE @,
                  !.inflight = IF continue
                               THEN (@ \ {idx}) \cup {Len(peer.dispatched) + 1}
                               ELSE @ \ {idx},
                  !.emitted = IF peer.subscriber = "open" THEN Append(@, response) ELSE @]
    /\ UNCHANGED <<rangeVars, request, partition, subscriber, dispatched, inflight,
                   syncCall, stack, emitted, mergedLog, unhandled, terminal>>

\* a sub-query of the second call delivers partialResponse: the map callback
\* and the next: callback of that call
PeerQueryResult(idx, partialResponse) ==
    /\ EventLoopFree
    /\ idx \in peer.inflight
    /\ partialResponse \in runQueryResponses(peer.dispatched[idx].query)
    /\ LET requestN == peer.dispatched[idx].requestN
           merged == combineResponses(peer.mergedResponse, partialResponse)
           continue == /\ requestN > 1
                       /\ resultLimitReached(peer.request, merged) = FALSE
           response == [merged EXCEPT !.state = IF continue THEN "Streaming" ELSE "Done"]
       IN  peer' = [peer EXCEPT
                  !.mergedResponse = response,
                  !.mergedLog = Append(@, [requestN |-> requestN,
                                           partial |-> partialResponse.data,
                                           data |-> merged.data]),
                  !.dispatched = IF continue
                                 THEN Append(@, peerSubRequest(requestN - 1))
                                 ELSE @,
                  !.inflight = IF continue
                               THEN (@ \ {idx}) \cup {Len(peer.dispatched) + 1}
                               ELSE @ \ {idx},
                  !.emitted = IF peer.subscriber = "open" THEN Append(@, response) ELSE @]
    /\ UNCHANGED <<rangeVars, schedVars>>

\* a sub-query of the second call fails: no handler
PeerQueryError(idx) ==
    /\ EventLoopFree
    /\ idx \in peer.inflight
    /\ peer' = [peer EXCEPT !.inflight = @ \ {idx}]
    /\ UNCHANGED <<rangeVars, schedVars>>

\* the caller of the second call unsubscribes: no teardown
PeerUnsubscribe ==
    /\ EventLoopFree
    /\ peer.subscriber = "open"
    /\ peer' = [peer EXCEPT !.subscriber = "closed"]
    /\ UNCHANGED <<rangeVars, schedVars>>

NextTwo ==
    \/ Next
    \/ PeerSubscribe
    \/ \E idx \in peer.inflight :
          \E partialResponse \in runQueryResponses(peer.dispatched[idx].query) :
              PeerQueryResult(idx, partialResponse)
    \/ \E idx \in peer.inflight : PeerQueryError(idx)
    \/ PeerUnsubscribe

SpecTwo == InitTwo /\ [][NextTwo]_vars

(***************************************************************************)
(* SpecResubscribe: the observable returned by one runPartitionedQuery     *)
(* call is subscribed a second time, after or while the first subscription *)
(* runs. partition, mergedResponse and totalRequests are declared in the   *)
(* call (lines 14, 29, 30), outside the function given to new Observable   *)
(* (line 58), so both subscriptions read and write the same mergedResponse.*)
(* The record peer holds what belongs to the second subscription: its      *)
(* subscriber, its sub-queries and what it has received. Its sub-queries   *)
(* deliver from the event loop.                                            *)
(***************************************************************************)
InitResubscribe ==
    /\ call = [absent |-> TRUE]
    /\ ret = NotCalled
    /\ request \in TwoRequests
    /\ partition = partitionOf(request)
    /\ mergedResponse = Null
    /\ subscriber = "none"
    /\ dispatched = <<>>
    /\ inflight = {}
    /\ syncCall = 0
    /\ stack = <<>>
    /\ emitted = <<>>
    /\ mergedLog = <<>>
    /\ unhandled = <<>>
    /\ terminal = "none"
    /\ peer = [request |-> request,
               partition |-> partitionOf(request),
               mergedResponse |-> Null,
               subscriber |-> "none",
               dispatched |-> <<>>,
               inflight |-> {},
               emitted |-> <<>>,
               mergedLog |-> <<>>]

\* the second subscription: the function given to new Observable runs again,
\* next(subscriber, totalRequests)
Resubscribe ==
    /\ EventLoopFree
    /\ subscriber # "none"
    /\ peer.subscriber = "none"
    /\ peer' = [peer EXCEPT !.subscriber = "open",
                            !.dispatched = <<subRequest(totalRequests)>>,
                            !.inflight = {1}]
    /\ UNCHANGED <<rangeVars, schedVars>>

\* a sub-query of the second subscription delivers partialResponse: the map
\* callback merges it into mergedResponse of the call, the next: callback
\* dispatches and passes the response to the second subscriber
ResubscribedQueryResult(idx, partialResponse) ==
    /\ EventLoopFree
    /\ idx \in peer.inflight
    /\ partialResponse \in runQueryResponses(peer.dispatched[idx].query)
    /\ LET requestN == peer.dispatched[idx].requestN
           merged == combineResponses(mergedResponse, partialResponse)
           continue == shouldContinue(requestN, merged)
           response == [merged EXCEPT !.state = IF continue THEN "Streaming" ELSE "Done"]
       IN  /\ mergedResponse' = response
           /\ peer' = [peer EXCEPT
                  !.mergedLog = Append(@, [requestN |-> requestN,
                                           partial |-> partialResponse.data,
                                           data |-> merged.data]),
                  !.dispatched = IF continue
                                 THEN Append(@, subRequest(nextRequestN(requestN)))
                                 ELSE @,
                  !.inflight = IF continue
                               THEN (@ \ {idx}) \cup {Len(peer.dispatched) + 1}
                               ELSE @ \ {idx},
                  !.emitted = IF peer.subscriber = "open" THEN Append(@, response) ELSE @]
    /\ UNCHANGED <<rangeVars, request, partition, subscriber, dispatched, inflight,
                   syncCall, stack, emitted, mergedLog, unhandled, terminal>>

NextResubscribe ==
    \/ Next
    \/ Resubscribe
    \/ \E idx \in peer.inflight :
          \E partialResponse \in runQueryResponses(peer.dispatched[idx].query) :
              ResubscribedQueryResult(idx, partialResponse)
    \/ \E idx \in peer.inflight : PeerQueryError(idx)
    \/ PeerUnsubscribe

SpecResubscribe == InitResubscribe /\ [][NextResubscribe]_vars

(***************************************************************************)
(* SpecRepeat: as Spec, and the observable of a sub-query may deliver more *)
(* than one response before it ends (the comment at line 38: "in case of   *)
(* an empty query, this is somehow run twice"). The map callback and the   *)
(* next: callback run for every response delivered. The responses before   *)
(* the last one are delivered from the event loop.                         *)
(***************************************************************************)
MaxRepeats == 1

\* the number of responses delivered so far that were not the last of their
\* sub-query
Repeats ==
    Len(mergedLog) + Len(unhandled) - (Len(dispatched) - Cardinality(inflight))

\* The observable of sub-query idx delivers partialResponse and stays
\* subscribed: the callbacks run as in QueryResult, the sub-query remains in
\* flight.
QueryResultNotLast(idx, partialResponse, sync, unsub) ==
    /\ EventLoopFree
    /\ idx \in inflight
    /\ Repeats < MaxRepeats
    /\ partialResponse \in runQueryResponses(dispatched[idx].query)
    /\ LET requestN == dispatched[idx].requestN
           merged == combineResponses(mergedResponse, partialResponse)
           continue == shouldContinue(requestN, merged)
           response == [merged EXCEPT !.state = IF continue THEN "Streaming" ELSE "Done"]
       IN  /\ mergedResponse' = response
           /\ mergedLog' = Append(mergedLog, [requestN |-> requestN,
                                            partial |-> partialResponse.data,
                                            data |-> merged.data])
           /\ IF continue
              THEN /\ dispatched' = Append(dispatched, subRequest(nextRequestN(requestN)))
                   /\ inflight' = inflight \cup {Len(dispatched) + 1}
              ELSE /\ sync = FALSE
                   /\ dispatched' = dispatched
                   /\ inflight' = inflight
           /\ IF continue /\ sync
              THEN /\ unsub = FALSE
                   /\ syncCall' = Len(dispatched) + 1
                   /\ stack' = Append(stack, response)
                   /\ UNCHANGED <<emitted, subscriber>>
              ELSE /\ syncCall' = 0
                   /\ stack' = stack
                   /\ emitted' = afterNext(response)
                   /\ subscriber' = afterHandler(unsub)
    /\ UNCHANGED <<rangeVars, peer, request, partition, unhandled, terminal>>

NextRepeat ==
    \/ Next
    \/ \E idx \in inflight, sync \in BOOLEAN, unsub \in BOOLEAN :
          \E partialResponse \in runQueryResponses(dispatched[idx].query) :
              QueryResultNotLast(idx, partialResponse, sync, unsub)

InitRepeat ==
    /\ call = [absent |-> TRUE]
    /\ ret = NotCalled
    /\ request \in TwoRequests
    /\ partition = partitionOf(request)
    /\ mergedResponse = Null
    /\ subscriber = "none"
    /\ dispatched = <<>>
    /\ inflight = {}
    /\ syncCall = 0
    /\ stack = <<>>
    /\ emitted = <<>>
    /\ mergedLog = <<>>
    /\ unhandled = <<>>
    /\ terminal = "none"
    /\ peer = NoPeer

SpecRepeat == InitRepeat /\ [][NextRepeat]_vars

(***************************************************************************)
(* Properties of getRanges (checked under SpecRanges).                     *)
(***************************************************************************)
\* the preconditions of the partitioner: step >= 1, idealRangeSize >= 1,
\* start <= end
ValidCall ==
    /\ call.step >= 1
    /\ call.idealRangeSize >= 1
    /\ call.startTime <= call.endTime

Returned == ret.status = "returned"

SetMin(S) == CHOOSE x \in S : \A y \in S : x <= y
SetMax(S) == CHOOSE x \in S : \A y \in S : x >= y

\* The partitioning as the design describes it, on sets of points and without
\* reversing or slicing a list. The alignment formulas are those of the
\* design's step 1, with the remainder of the implementation language.
RefAlignedStart(start, step) == start - JsRem(start, step)

RefAlignedEnd(end, step) ==
    IF JsRem(end, step) # 0 THEN end + (step - JsRem(end, step)) ELSE end

RefGrid(start, end, step) ==
    LET aS == RefAlignedStart(start, step)
        aE == RefAlignedEnd(end, step)
    IN  {aS + k * step : k \in 0..((aE - aS) \div step)}

RefPointsPerChunk(idealRangeSize, step) ==
    IF idealRangeSize \div step >= 1 THEN idealRangeSize \div step ELSE 1

\* group g holds the points whose rank counted from the newest point (rank 0)
\* lies in g * pointsPerChunk .. (g + 1) * pointsPerChunk - 1
RefGroup(start, end, step, idealRangeSize, g) ==
    LET aE == RefAlignedEnd(end, step)
        ppc == RefPointsPerChunk(idealRangeSize, step)
    IN  {p \in RefGrid(start, end, step) : ((aE - p) \div step) \div ppc = g}

RefRanges(start, end, step, idealRangeSize) ==
    LET ppc == RefPointsPerChunk(idealRangeSize, step)
        n == Cardinality(RefGrid(start, end, step))
        m == (n + ppc - 1) \div ppc
    IN  [j \in 1..m |->
            LET grp == RefGroup(start, end, step, idealRangeSize, m - j)
            IN  <<SetMin(grp), SetMax(grp)>>]

\* the grid points r.start, r.start + step, ..., r.end of a range
PointsOfRange(r, step) == {r[1] + k * step : k \in 0..((r[2] - r[1]) \div step)}

\* the number of grid points of a range
PointCount(r, step) == (r[2] - r[1]) \div step + 1

\* C1: for valid arguments getRanges returns the reference partitioning: the
\* aligned grid points grouped from the newest end in groups of
\* max(trunc(idealRangeSize/step), 1), one [min, max] per group, oldest
\* first; the call of the unit test returns the three ranges it expects.
C1_MatchesReference ==
    /\ (Returned /\ ValidCall) =>
          ret.ranges = RefRanges(call.startTime, call.endTime, call.step,
                                 call.idealRangeSize)
    /\ (Returned /\ call = TestCall) => ret.ranges = TestExpected

C1_Witness ==
    /\ Returned
    /\ call = TestCall
    /\ ret.ranges = TestExpected

\* C2: for valid arguments the start and the end of every returned range is an
\* exact multiple of step.
C2_BoundsAligned ==
    (Returned /\ ValidCall) =>
        \A i \in 1..Len(ret.ranges) :
            /\ ret.ranges[i][1] % call.step = 0
            /\ ret.ranges[i][2] % call.step = 0

C2_Witness ==
    /\ Returned /\ ValidCall
    /\ call.step >= 2
    /\ call.startTime % call.step # 0
    /\ call.endTime % call.step # 0
    /\ call.startTime < 0
    /\ Len(ret.ranges) >= 2

\* C3: for valid arguments the union of the grid points of the returned ranges
\* is exactly the aligned point grid of [start, end]: none missing, none added.
C3_CoversGrid ==
    (Returned /\ ValidCall) =>
        UNION {PointsOfRange(ret.ranges[i], call.step) : i \in 1..Len(ret.ranges)}
            = RefGrid(call.startTime, call.endTime, call.step)

C3_Witness ==
    /\ Returned /\ ValidCall
    /\ Len(ret.ranges) >= 3
    /\ Cardinality(RefGrid(call.startTime, call.endTime, call.step)) >= 5
    /\ PointCount(ret.ranges[1], call.step)
           < RefPointsPerChunk(call.idealRangeSize, call.step)

\* C4: for valid arguments every returned range but the earliest holds exactly
\* max(trunc(idealRangeSize/step), 1) grid points, and the earliest holds
\* between 1 and that many.
C4_FullSize ==
    (Returned /\ ValidCall) =>
        LET ppc == RefPointsPerChunk(call.idealRangeSize, call.step)
        IN  \A i \in 1..Len(ret.ranges) :
                /\ (ret.ranges[i][2] - ret.ranges[i][1]) % call.step = 0
                /\ i > 1 => PointCount(ret.ranges[i], call.step) = ppc
                /\ i = 1 => /\ PointCount(ret.ranges[i], call.step) >= 1
                            /\ PointCount(ret.ranges[i], call.step) <= ppc

C4_Witness ==
    /\ Returned /\ ValidCall
    /\ Len(ret.ranges) >= 2
    /\ RefPointsPerChunk(call.idealRangeSize, call.step) >= 3
    /\ PointCount(ret.ranges[1], call.step) = 1

\* C5: the returned list is in strictly ascending chronological order and its
\* ranges share no sample point: start <= end in every range, and each range
\* starts one step after the end of the one before it.
C5_AscendingDisjoint ==
    (Returned /\ ValidCall) =>
        /\ \A i \in 1..Len(ret.ranges) : ret.ranges[i][1] <= ret.ranges[i][2]
        /\ \A i \in 1..(Len(ret.ranges) - 1) :
               ret.ranges[i + 1][1] = ret.ranges[i][2] + call.step

C5_Witness ==
    /\ Returned /\ ValidCall
    /\ Len(ret.ranges) >= 3
    /\ ret.ranges[2][1] < ret.ranges[2][2]

\* the number of points of the aligned grid of the call
GridSize == Cardinality(RefGrid(call.startTime, call.endTime, call.step))

LastRange == ret.ranges[Len(ret.ranges)]

\* C31 as stated: for valid arguments the chronologically last range holds
\* exactly the full number of points, max(trunc(idealRangeSize/step), 1).
C31_AsStated ==
    (Returned /\ ValidCall) =>
        PointCount(LastRange, call.step)
            = RefPointsPerChunk(call.idealRangeSize, call.step)

\* C31: for valid arguments the chronologically last range holds the full
\* number of points when the aligned grid has that many, and the whole grid
\* when it has fewer; it is then the only range. No range holds fewer points
\* than the earliest.
C31_LastRangeFull ==
    (Returned /\ ValidCall) =>
        LET ppc == RefPointsPerChunk(call.idealRangeSize, call.step)
        IN  /\ PointCount(LastRange, call.step)
                   = IF GridSize >= ppc THEN ppc ELSE GridSize
            /\ GridSize < ppc => Len(ret.ranges) = 1
            /\ \A i \in 1..Len(ret.ranges) :
                   PointCount(ret.ranges[1], call.step)
                       <= PointCount(ret.ranges[i], call.step)

\* a grid with fewer points than one full chunk
C31_Witness ==
    /\ Returned /\ ValidCall
    /\ GridSize >= 2
    /\ GridSize < RefPointsPerChunk(call.idealRangeSize, call.step)
    /\ Len(ret.ranges) = 1

\* the greatest multiple of step that is <= t, and the least that is >= t
FloorMultiple(t, step) == t - (t % step)

CeilMultiple(t, step) == IF t % step = 0 THEN t ELSE t + (step - (t % step))

\* C32: for valid arguments the first range starts at the greatest multiple
\* of step <= start and the last range ends at the least multiple of step
\* >= end, so that the ranges cover [start, end].
C32_ExpandsOutward ==
    (Returned /\ ValidCall) =>
        /\ ret.ranges[1][1] = FloorMultiple(call.startTime, call.step)
        /\ LastRange[2] = CeilMultiple(call.endTime, call.step)
        /\ ret.ranges[1][1] <= call.startTime
        /\ call.endTime <= LastRange[2]

\* the part of C32 that holds: timestamps at or after the epoch
C32_FromEpochOn ==
    (Returned /\ ValidCall /\ call.startTime >= 0) =>
        /\ ret.ranges[1][1] = FloorMultiple(call.startTime, call.step)
        /\ LastRange[2] = CeilMultiple(call.endTime, call.step)

\* what the code does before the epoch: the remainder has the sign of the
\* timestamp, so a start that is no multiple of step is raised and an end that
\* is no multiple of step is raised by one step too many
C32_BeforeEpoch ==
    (Returned /\ ValidCall) =>
        /\ (call.startTime < 0 /\ call.startTime % call.step # 0) =>
               ret.ranges[1][1] = FloorMultiple(call.startTime, call.step) + call.step
        /\ (call.endTime < 0 /\ call.endTime % call.step # 0) =>
               LastRange[2] = CeilMultiple(call.endTime, call.step) + call.step

\* C33: for valid arguments with idealRangeSize < step, every returned range
\* is a single point, consecutive ranges lie one step apart, and there are
\* (alignedEnd - alignedStart) / step + 1 of them, one for each point of the
\* aligned grid.
C33_OnePointPerRange ==
    (Returned /\ ValidCall /\ call.idealRangeSize < call.step) =>
        LET aligned == expandTimeRange(call.startTime, call.endTime, call.step)
        IN  /\ Len(ret.ranges) = (aligned[2] - aligned[1]) \div call.step + 1
            /\ Len(ret.ranges) = GridSize
            /\ \A i \in 1..Len(ret.ranges) :
                   /\ ret.ranges[i][1] = ret.ranges[i][2]
                   /\ ret.ranges[i][1] = aligned[1] + (i - 1) * call.step

C33_Witness ==
    /\ Returned /\ ValidCall
    /\ call.idealRangeSize >= 2
    /\ call.idealRangeSize < call.step
    /\ Len(ret.ranges) >= 3

\* C40: for valid arguments no returned range spans more than
\* idealRangeSize - step when idealRangeSize >= step, and every range spans 0
\* when idealRangeSize < step; no range spans more than idealRangeSize.
C40_SpanBounded ==
    (Returned /\ ValidCall) =>
        \A i \in 1..Len(ret.ranges) :
            LET span == ret.ranges[i][2] - ret.ranges[i][1]
            IN  /\ call.idealRangeSize >= call.step =>
                       span <= call.idealRangeSize - call.step
                /\ call.idealRangeSize < call.step => span = 0
                /\ span <= call.idealRangeSize

\* the bound is reached: a range spans exactly idealRangeSize - step
C40_Witness ==
    /\ Returned /\ ValidCall
    /\ call.step >= 2
    /\ call.idealRangeSize >= 2 * call.step
    /\ \E i \in 1..Len(ret.ranges) :
           ret.ranges[i][2] - ret.ranges[i][1] = call.idealRangeSize - call.step

(***************************************************************************)
(* Properties of runPartitionedQuery (checked under Spec).                 *)
(***************************************************************************)
\* no sub-query is awaited and no callback is running
Quiet == subscriber # "none" /\ inflight = {} /\ syncCall = 0 /\ stack = <<>>

States(q) == [i \in 1..Len(q) |-> q[i].state]

\* C6: sub-queries are dispatched in the exact reverse of the chronological
\* partition order: the k-th dispatched sub-query covers the k-th newest
\* partition; none is skipped, none is out of order.
C6_DispatchNewestFirst ==
    \A k \in 1..Len(dispatched) :
        /\ k <= Len(partition)
        /\ dispatched[k].query.range = partition[Len(partition) + 1 - k]

C6_Witness ==
    /\ Len(partition) >= 4
    /\ Len(dispatched) = Len(partition)
    /\ Quiet

\* C7: sub-queries run strictly one after the other: at most one is in flight,
\* and the sub-query of an older partition is dispatched only when the result
\* of the next newer partition has been received and merged.
C7_Sequential ==
    /\ Cardinality(inflight) <= 1
    /\ \A k \in 2..Len(dispatched) :
           /\ (k - 1) \notin inflight
           /\ \E j \in 1..Len(mergedLog) :
                  mergedLog[j].requestN = dispatched[k].requestN + 1

C7_Witness ==
    /\ Len(dispatched) >= 3
    /\ Cardinality(inflight) = 1
    /\ Len(mergedLog) = Len(dispatched) - 1

\* the number of merges after which the limit predicate first reports true,
\* Len(partition) when it never does on the merges made
FirstLimitHit ==
    LET hits == {j \in 1..Len(mergedLog) : resultLimitReached(request, mergedLog[j])}
    IN  IF hits = {} THEN Len(partition) ELSE SetMin(hits)

\* C8: early stop. When the limit predicate first reports true after k merged
\* partitions (k = n when it never does), a run that is neither cancelled nor
\* failed issues exactly k sub-queries and emits exactly k responses, the
\* first k - 1 marked Streaming and the k-th marked Done.
C8_EarlyStop ==
    (Quiet /\ subscriber = "open" /\ unhandled = <<>>) =>
        LET k == FirstLimitHit
        IN  /\ Len(dispatched) = k
            /\ Len(emitted) = k
            /\ \A i \in 1..(k - 1) : emitted[i].state = "Streaming"
            /\ emitted[k].state = "Done"

\* the part of C8 that counts: exactly k sub-queries, exactly k responses
C8_Counts ==
    (Quiet /\ subscriber = "open" /\ unhandled = <<>>) =>
        /\ Len(dispatched) = FirstLimitHit
        /\ Len(emitted) = FirstLimitHit

\* a step that merges a partial response
MergeStep == Len(mergedLog') = Len(mergedLog) + 1

\* whether that step dispatches a further sub-query
Continued == Len(dispatched') = Len(dispatched) + 1

\* C9 as stated: after a merge the accumulator is marked Streaming and the
\* next older partition is dispatched exactly when this was not the first
\* executed partition and the limit is not reached; otherwise it is marked
\* Done and nothing is dispatched.
C9_AsStated ==
    [][MergeStep =>
          /\ Continued <=> (/\ Len(mergedLog') > 1
                            /\ ~resultLimitReached(request, mergedResponse'))
          /\ mergedResponse'.state = IF Continued THEN "Streaming" ELSE "Done"]_vars

\* C9 amended: after a merge the accumulator is marked Streaming and the next
\* older partition is dispatched exactly when an older partition remains
\* (this was not the last partition to execute) and the limit is not reached;
\* otherwise it is marked Done and nothing is dispatched.
C9_ContinueWhileOlderRemains ==
    [][MergeStep =>
          /\ Continued <=> (/\ mergedLog'[Len(mergedLog')].requestN > 1
                            /\ ~resultLimitReached(request, mergedResponse'))
          /\ mergedResponse'.state = IF Continued THEN "Streaming" ELSE "Done"
          /\ Continued =>
                 dispatched'[Len(dispatched')].query.range
                     = partition[mergedLog'[Len(mergedLog')].requestN - 1]
          /\ ~Continued => dispatched' = dispatched]_vars

C9_Witness ==
    /\ Len(partition) >= 2
    /\ Len(mergedLog) = 1
    /\ Len(dispatched) = 2
    /\ mergedResponse.state = "Streaming"

\* C10: the subscriber receives zero or more Streaming responses and then one
\* Done response, and nothing after it: at most one received response is Done,
\* it is the last one, and every earlier one is Streaming.
C10_DoneIsLast ==
    \A i \in 1..Len(emitted) :
        IF i = Len(emitted)
        THEN emitted[i].state \in {"Streaming", "Done"}
        ELSE emitted[i].state = "Streaming"

\* C11: emissions only grow: the data of every emission holds the data of the
\* emission before it, and a step never changes or withdraws a response the
\* subscriber has already received.
C11_EmissionsGrow ==
    [][/\ Len(emitted') >= Len(emitted)
       /\ SubSeq(emitted', 1, Len(emitted)) = emitted
       /\ \A k \in 2..Len(emitted') :
              SeqRange(emitted'[k - 1].data) \subseteq SeqRange(emitted'[k].data)]_vars

\* the part of C11 about received responses: they stay as they were received
C11_NeverWithdrawn ==
    [][/\ Len(emitted') >= Len(emitted)
       /\ SubSeq(emitted', 1, Len(emitted)) = emitted]_vars

\* C12: after a sub-query has failed nothing more is dispatched: the failed
\* sub-query stays the last one dispatched, no partition is dispatched twice
\* and at most one sub-query ever fails.
C12_FailureStops ==
    /\ \A j, k \in 1..Len(dispatched) :
           dispatched[j].requestN = dispatched[k].requestN => j = k
    /\ unhandled # <<>> =>
           /\ Len(unhandled) = 1
           /\ dispatched[Len(dispatched)].requestN = unhandled[1]

\* a sub-query failed while older partitions remained, after a newer one had
\* delivered, and every callback has run
C12_Witness ==
    /\ Quiet
    /\ unhandled # <<>>
    /\ unhandled[1] > 1
    /\ Len(dispatched) >= 2

\* the subscriber has been told of a failure: through subscriber.error(), or
\* through a last response marked Error that carries the accumulator
ErrorEventDelivered ==
    \/ terminal = "error"
    \/ /\ emitted # <<>>
       /\ emitted[Len(emitted)].state = "Error"
       /\ mergedResponse # Null
       /\ emitted[Len(emitted)].data = mergedResponse.data

\* C13: when a sub-query has failed and every callback has run, a subscriber
\* that is still subscribed has received an error event with the accumulator
\* merged so far.
C13_FailureSurfaced ==
    (Quiet /\ subscriber = "open" /\ unhandled # <<>>) => ErrorEventDelivered

\* the scenario of the claim: three partitions, the newest delivered and was
\* emitted as Streaming, the second failed
C13_Scenario ==
    /\ Quiet
    /\ subscriber = "open"
    /\ totalRequests = 3
    /\ unhandled = <<2>>
    /\ Len(emitted) = 1
    /\ emitted[1].state = "Streaming"

\* C14: once the caller has unsubscribed, no sub-query is dispatched.
C14_NoDispatchAfterUnsubscribe ==
    [][subscriber = "closed" => dispatched' = dispatched]_vars

\* C15: once the caller has unsubscribed, no response is delivered to it.
C15_NoEmissionAfterUnsubscribe ==
    [][subscriber = "closed" => emitted' = emitted]_vars

\* the caller has unsubscribed, every callback has run, and a response that was
\* merged was not delivered
C15_Witness ==
    /\ Quiet
    /\ subscriber = "closed"
    /\ unhandled = <<>>
    /\ Len(mergedLog) > Len(emitted)

\* C16: once the caller has unsubscribed, nothing is merged into the
\* accumulator.
C16_AccumulatorFrozen ==
    [][subscriber = "closed" =>
           mergedResponse' = mergedResponse /\ mergedLog' = mergedLog]_vars

\* C17: every sub-request that has been dispatched is the original request with
\* the range of one partition, at index i counted from 0, and the identifier
\* "{requestId}_{i+1}", its other fields being those of the original; no step
\* changes the original request or the partition list.
C17_SubRequestOfPartition ==
    [][/\ request' = request
       /\ partition' = partition
       /\ \A k \in 1..Len(dispatched') :
            \E i \in 0..(Len(partition') - 1) :
               /\ dispatched'[k].query.range = partition'[i + 1]
               /\ dispatched'[k].query.requestId =
                      request'.requestId \o "_" \o ToString(i + 1)
               /\ dispatched'[k].query.intervalMs = request'.intervalMs
               /\ dispatched'[k].query.maxLines = request'.maxLines]_vars

\* the sub-requests of all partitions of a request with three or more have
\* been dispatched
C17_Witness ==
    /\ totalRequests >= 3
    /\ Len(dispatched) = totalRequests

\* C18 as stated: the k-th sub-query executed carries the identifier
\* "{requestId}_{k}".
C18_AsStated ==
    \A k \in 1..Len(dispatched) :
        dispatched[k].query.requestId = request.requestId \o "_" \o ToString(k)

\* C18: the k-th sub-query executed, of a request with n partitions, carries the
\* identifier "{requestId}_{n+1-k}": N counts down from n, for the newest
\* partition, to 1 for the oldest.
C18_CountsDownFromTotal ==
    \A k \in 1..Len(dispatched) :
        dispatched[k].query.requestId =
            request.requestId \o "_" \o ToString(totalRequests + 1 - k)

\* two sub-queries of a request with several partitions have been executed,
\* and the first did not carry N = 1
C18_Witness ==
    /\ Len(dispatched) >= 2
    /\ dispatched[1].query.requestId # request.requestId \o "_1"
    /\ dispatched[2].query.requestId # request.requestId \o "_2"

\* C19: a getRanges call with idealRangeSize < 1 throws and yields no list,
\* whatever startTime, endTime and step are.
C19_IdealRangeSizeRejected ==
    (ret.status # "none" /\ call.idealRangeSize < 1) =>
        (ret.status = "threw" /\ ret.ranges = <<>>)

\* a call with idealRangeSize = 0 and a step that getRanges never checks
\* has thrown
C19_Witness ==
    /\ ret.status = "threw"
    /\ call.idealRangeSize = 0
    /\ call.step < 1
    /\ call.startTime > call.endTime

\* C20: a getRanges call with step < 1 throws and returns no list.
C20_StepRejected ==
    (ret.status # "none" /\ call.step < 1) => ret.status = "threw"

\* C21: a getRanges call with start > end throws and returns no list.
C21_ReversedRangeRejected ==
    (ret.status # "none" /\ call.startTime > call.endTime) => ret.status = "threw"

\* C22: a getRanges call that returns, returns at least one range.
C22_NeverEmpty ==
    Returned => Len(ret.ranges) >= 1

\* the part of C22 that holds: a call that meets the preconditions returns at
\* least one range
C22_ValidCallNeverEmpty ==
    (ValidCall /\ ret.status # "none") => (Returned /\ Len(ret.ranges) >= 1)

\* a call with start = end that meets the other preconditions has been made
DegenerateCall ==
    /\ ret.status # "none"
    /\ call.step >= 1
    /\ call.idealRangeSize >= 1
    /\ call.startTime = call.endTime

\* C23 as stated: a call with start = end returns exactly one range, and that
\* range is a single point.
C23_AsStated ==
    DegenerateCall =>
        /\ Returned
        /\ Len(ret.ranges) = 1
        /\ ret.ranges[1][1] = ret.ranges[1][2]

\* C23: a call with start = end returns the single range [start, start] when
\* start is a multiple of step. Otherwise it returns the two multiples of step
\* that the alignment yields, one step apart: as the one range [lo, hi] when
\* idealRangeSize holds two steps, else as the two single-point ranges
\* [lo, lo] and [hi, hi].
C23_DegenerateRange ==
    DegenerateCall =>
        /\ Returned
        /\ Len(ret.ranges) >= 1
        /\ IF call.startTime % call.step = 0
           THEN ret.ranges = << <<call.startTime, call.startTime>> >>
           ELSE LET lo == ret.ranges[1][1]
                    hi == lo + call.step
                IN  /\ lo % call.step = 0
                    /\ call.startTime >= 0 => (lo < call.startTime /\ call.startTime < hi)
                    /\ ret.ranges = IF call.idealRangeSize >= 2 * call.step
                                    THEN << <<lo, hi>> >>
                                    ELSE << <<lo, lo>>, <<hi, hi>> >>

\* a call with start = end not a multiple of step has returned two ranges
C23_Witness ==
    /\ DegenerateCall
    /\ call.startTime % call.step # 0
    /\ Len(ret.ranges) = 2

\* C24: with exactly one partition at most one sub-query is dispatched and at
\* most one response emitted, every response is marked Done, and a run that is
\* neither cancelled nor failed ends with exactly one of each.
C24_SinglePartition ==
    totalRequests = 1 =>
        /\ Len(dispatched) <= 1
        /\ Len(emitted) <= 1
        /\ \A k \in 1..Len(emitted) : emitted[k].state = "Done"
        /\ (Quiet /\ subscriber = "open" /\ unhandled = <<>>) =>
               (Len(dispatched) = 1 /\ Len(emitted) = 1)

\* a run with one partition has ended with its one Done response, the limit
\* predicate reporting false
C24_Witness ==
    /\ totalRequests = 1
    /\ Quiet
    /\ Len(emitted) = 1
    /\ emitted[1].state = "Done"
    /\ request.maxLines > 0
    /\ ~resultLimitReached(request, emitted[1])

\* the partial responses merged so far, in execution order
Partials == [k \in 1..Len(mergedLog) |-> [data |-> mergedLog[k].partial, state |-> "NotSet"]]

\* combineResponses applied to a list of partial responses from the left,
\* starting without an accumulator
RECURSIVE combineAll(_, _)
combineAll(parts, acc) ==
    IF parts = <<>> THEN acc
    ELSE combineAll(Tail(parts), combineResponses(acc, Head(parts)))

\* every partition has been executed and merged, and every callback has run
AllMerged ==
    /\ Quiet
    /\ totalRequests >= 1
    /\ Len(mergedLog) = totalRequests

GoesOnAfter(k) ==
    /\ mergedLog[k].requestN - 1 > 0
    /\ ~resultLimitReached(request, [data |-> mergedLog[k].data, state |-> "NotSet"])

\* C28: for every merge so far, in a run without failure: if the rule says go
\* on, the sub-query of the next older partition was dispatched right after
\* the merged one; if not, the merged sub-query is the last one dispatched.
\* The accumulator is marked Streaming or Done by the rule applied to the
\* latest merge. A limit reached on the newest partition leaves one execution.
C28_ContinueRule ==
    /\ \A k \in 1..Len(mergedLog) :
           /\ dispatched[k].requestN = mergedLog[k].requestN
           /\ IF GoesOnAfter(k)
              THEN /\ Len(dispatched) >= k + 1
                   /\ dispatched[k + 1].requestN = mergedLog[k].requestN - 1
                   /\ dispatched[k + 1].query.range = partition[mergedLog[k].requestN - 1]
              ELSE Len(dispatched) = k
    /\ mergedLog # <<>> =>
           mergedResponse.state =
               IF GoesOnAfter(Len(mergedLog)) THEN "Streaming" ELSE "Done"
    /\ (mergedLog # <<>> /\ resultLimitReached(request, [data |-> mergedLog[1].data])) =>
           Len(dispatched) = 1

\* the run of a request with several partitions ended after its first
\* execution, the limit having been reached on the newest partition
C28_Witness ==
    /\ totalRequests >= 3
    /\ Quiet
    /\ Len(mergedLog) = 1
    /\ resultLimitReached(request, mergedResponse)
    /\ mergedResponse.state = "Done"
    /\ Len(dispatched) = 1

\* how many entries of a list of responses or log entries carry the data d
CountData(q, d) == Cardinality({k \in 1..Len(q) : q[k].data = d})

C30_FirstEmission ==
    /\ mergedLog = <<>> => mergedResponse = Null
    /\ emitted # <<>> =>
           /\ mergedLog[1].requestN = totalRequests
           /\ emitted[1].data = mergedLog[1].partial

\* the part of C30 about the merge: the accumulator is absent exactly until
\* the first merge, which is that of the newest partition and yields its
\* partial response unchanged
C30_FirstMerge ==
    /\ mergedLog = <<>> <=> mergedResponse = Null
    /\ mergedLog # <<>> =>
           /\ mergedLog[1].requestN = totalRequests
           /\ mergedLog[1].data = mergedLog[1].partial

\* how often the partition at list position i has been dispatched
TimesDispatched(i) ==
    Cardinality({k \in 1..Len(dispatched) : dispatched[k].query.range = partition[i]})

\* C34: within the subscription no partition is dispatched more than once,
\* whether its sub-query delivered, failed or is still in flight, and every
\* sub-query dispatched is that of a partition.
C34_NoRetry ==
    /\ \A i \in 1..totalRequests : TimesDispatched(i) <= 1
    /\ \A k \in 1..Len(dispatched) :
           \E i \in 1..totalRequests : dispatched[k].query.range = partition[i]

\* a sub-query has failed after a newer one delivered; each was dispatched once
C34_Witness ==
    /\ Quiet
    /\ totalRequests >= 3
    /\ Len(mergedLog) = 1
    /\ Len(unhandled) = 1
    /\ TimesDispatched(unhandled[1]) = 1

\* C35: the responses reach the subscriber in execution order: the k-th
\* response received is the accumulator of the k-th merge, and only the last
\* response received can be marked Done.
C35_EmissionOrder ==
    \A k \in 1..Len(emitted) :
        /\ emitted[k].data = mergedLog[k].data
        /\ emitted[k].state = "Done" => k = Len(emitted)

\* what the code does in a chain of synchronously delivering sub-queries that
\* is neither cancelled nor failed: the responses arrive in the reverse of the
\* execution order, the Done response first
C35_ReversedWhenSynchronous ==
    (/\ Quiet /\ subscriber = "open" /\ unhandled = <<>>
     /\ Len(emitted) = Len(mergedLog)
     /\ emitted # <<>> /\ emitted[1].state = "Done") =>
        \A k \in 1..Len(emitted) :
            emitted[k].data = mergedLog[Len(mergedLog) + 1 - k].data

\* C39: the subscriber never receives a complete or an error notification.
C39_NextOnly ==
    terminal = "none"

\* a run has ended with its Done response, another with a failure
C39_Witness ==
    /\ Quiet
    /\ subscriber = "open"
    /\ terminal = "none"
    /\ \/ emitted # <<>> /\ emitted[Len(emitted)].state = "Done" /\ Len(emitted) >= 2
       \/ unhandled # <<>>

(***************************************************************************)
(* Properties of runPartitionedQuery for any range (SpecAnyRange).         *)
(***************************************************************************)
\* C25: with an empty partition list, once the caller has subscribed no
\* sub-query has been dispatched, nothing has failed, and the subscriber has
\* received exactly one response, marked Done and without data.
C25_EmptyPartitionList ==
    (totalRequests = 0 /\ subscriber # "none") =>
        /\ dispatched = <<>>
        /\ unhandled = <<>>
        /\ terminal = "none"
        /\ Len(emitted) = 1
        /\ emitted[1].state = "Done"
        /\ emitted[1].data = <<>>

\* what the code does with an empty partition list: it dispatches one
\* sub-query, numbered 0 and without a range
C25_SubQueryZero ==
    (totalRequests = 0 /\ subscriber # "none") =>
        /\ Len(dispatched) = 1
        /\ dispatched[1].query.requestId = request.requestId \o "_0"
        /\ dispatched[1].query.range = Undefined

(***************************************************************************)
(* Properties of two calls of runPartitionedQuery (SpecTwo).               *)
(***************************************************************************)
\* the first k partial responses of a log
PartialsUpTo(log, k) == [j \in 1..k |-> [data |-> log[j].partial, state |-> "NotSet"]]

\* What a call that runs alone shows: its partition list is that of its own
\* request; its sub-queries count down from its own number of partitions and
\* carry its own requestId; every accumulator is the merge of the partial
\* responses of its own sub-queries so far; every response received carries
\* one of these accumulators.
AsIfAlone(req, part, disp, log, emit) ==
    /\ part = partitionOf(req)
    /\ \A k \in 1..Len(disp) :
           /\ disp[k].requestN = Len(part) + 1 - k
           /\ disp[k].query.range = part[Len(part) + 1 - k]
           /\ disp[k].query.requestId =
                  req.requestId \o "_" \o ToString(Len(part) + 1 - k)
    /\ \A k \in 1..Len(log) :
           /\ log[k].requestN = disp[k].requestN
           /\ log[k].data = combineAll(PartialsUpTo(log, k), Null).data
    /\ \A k \in 1..Len(emit) :
           \E j \in 1..Len(log) : emit[k].data = log[j].data

\* C27: a step of one call leaves the state of the other call as it is, and
\* after every step each call shows what it would show running alone.
C27_Independent ==
    [][/\ peer' # peer => UNCHANGED schedVars
       /\ schedVars' # schedVars => peer' = peer
       /\ AsIfAlone(request', partition', dispatched', mergedLog', emitted')
       /\ AsIfAlone(peer'.request, peer'.partition, peer'.dispatched,
                    peer'.mergedLog, peer'.emitted)]_vars

\* both calls have merged two partial responses and emitted two responses,
\* with different samples
C27_Witness ==
    /\ Len(mergedLog) = 2
    /\ Len(peer.mergedLog) = 2
    /\ Len(emitted) = 2
    /\ Len(peer.emitted) = 2
    /\ mergedResponse.data # <<>>
    /\ peer.mergedResponse.data # <<>>
    /\ mergedResponse.data # peer.mergedResponse.data

(***************************************************************************)
(* Properties of a second subscription (checked under SpecResubscribe).    *)
(***************************************************************************)
\* the rows of the partial responses logged in log
RowsOf(log) ==
    UNION {SeqRange(log[k].partial) : k \in 1..Len(log)}

\* C36: every subscription starts from an absent accumulator: a response
\* emitted to a subscriber contains only rows of partial responses of the
\* sub-queries dispatched for that subscription, and the first merge of a
\* subscription yields the partial response itself.
C36_OwnPartialsOnly ==
    /\ \A k \in 1..Len(emitted) : SeqRange(emitted[k].data) \subseteq RowsOf(mergedLog)
    /\ \A k \in 1..Len(peer.emitted) :
           SeqRange(peer.emitted[k].data) \subseteq RowsOf(peer.mergedLog)
    /\ mergedLog # <<>> => mergedLog[1].data = mergedLog[1].partial
    /\ peer.mergedLog # <<>> => peer.mergedLog[1].data = peer.mergedLog[1].partial

(***************************************************************************)
(* Properties of repeated delivery (checked under SpecRepeat).             *)
(***************************************************************************)
\* how often a response of sub-query requestN has been merged
TimesMerged(requestN) ==
    Cardinality({k \in 1..Len(mergedLog) : mergedLog[k].requestN = requestN})

\* C37: each partition's result is merged once and leads to at most one
\* dispatch of the next older partition, also when a sub-query delivers more
\* than one response.
C37_MergedOnce ==
    \A i \in 1..totalRequests :
        /\ TimesMerged(i) <= 1
        /\ TimesDispatched(i) <= 1

\* the second half of C37 alone: no partition is dispatched twice
C37_DispatchedOnce ==
    \A i \in 1..totalRequests : TimesDispatched(i) <= 1

\* what the code does: every response delivered is merged, and every merge
\* that continues dispatches the next older partition once more
C37_MergedPerDelivery ==
    \A i \in 1..totalRequests :
        /\ TimesMerged(i) <= TimesDispatched(i) + Repeats
        /\ i < totalRequests => TimesDispatched(i) <= TimesMerged(i + 1)

(***************************************************************************)
(* Liveness of runPartitionedQuery (checked under SpecLive).               *)
(***************************************************************************)
\* the subscriber has received a response marked Done
DoneEmitted ==
    \E k \in 1..Len(emitted) : emitted[k].state = "Done"

\* C38: while the caller stays subscribed and no sub-query fails, a response
\* marked Done is emitted in the end, and never more sub-queries are
\* dispatched than there are partitions.
C38_EventuallyDone ==
    /\ [](Len(dispatched) <= totalRequests)
    /\ (subscriber = "open") ~>
           (DoneEmitted \/ subscriber = "closed" \/ unhandled # <<>>)

\* the Done response has been emitted to a subscriber still subscribed, after
\* one sub-query for each of at least three partitions
C38_Witness ==
    /\ subscriber = "open"
    /\ unhandled = <<>>
    /\ DoneEmitted
    /\ totalRequests >= 3
    /\ Len(dispatched) = totalRequests
    /\ Len(mergedLog) = totalRequests
====
